---- MODULE Spec2Model ----
(***************************************************************************)
(* Extrinsic orchestrators, chain-data decoder and show command of the    *)
(* bittensor SDK:                                                          *)
(*   bittensor/api/extrinsics/unstaking.py                                 *)
(*       unstake_extrinsic, unstake_multiple_extrinsic                     *)
(*   bittensor/utils/deprecated/extrinsics/transfer.py                     *)
(*       transfer_extrinsic                                                *)
(*   bittensor/core/chain_data/neuron_info.py                              *)
(*       NeuronInfo.from_vec_u8, fix_decoded_values, get_null_neuron,      *)
(*       from_weights_bonds_and_neuron_lite                                *)
(*   bittensor/commands/subnets/show.py                                    *)
(*       ShowSubnet.run, show_subnet                                       *)
(* The chain (subtensor) and the wallet are external collaborators; every  *)
(* call an orchestrator makes on them is appended to `log`, in order, with *)
(* the value the collaborator returned.                                    *)
(***************************************************************************)
EXTENDS Integers, Sequences, FiniteSets, TLC

VARIABLES
    stake,                \* chain: stake of the wallet coldkey on each hotkey (rao)
    balance,              \* chain: free balance of the wallet coldkey (rao)
    call,                 \* the orchestrator call in progress or last finished
    log,                  \* collaborator calls made by that call, in order
    ret,                  \* what that call returned or raised
    pc,                   \* "idle" before the call, "loop" inside the loop of
                          \* unstake_multiple_extrinsic, "done" once it returned
    idx,                  \* loop index of unstake_multiple_extrinsic (0-based)
    amounts,              \* unstake_multiple_extrinsic: amounts after conversion
    old_stakes,           \* unstake_multiple_extrinsic: stakes read before the loop
    own_hotkeys,          \* unstake_multiple_extrinsic: ownership read before the loop
    successful_unstakes,  \* unstake_multiple_extrinsic: success counter
    neuron_info_decoded,  \* NeuronInfo: the decoded chain object handed to the decoder
    neuron,               \* NeuronInfo: the record the decoder returned
    neuron_lite,          \* NeuronInfo: the attributes (__dict__) of the lite
                          \* neuron handed to from_weights_bonds_and_neuron_lite
    config,               \* ShowSubnet: the command's configuration
    subnet_state,         \* ShowSubnet: what the chain holds for the subnet shown
    rows                  \* ShowSubnet: the rows of the table printed

vars == <<stake, balance, call, log, ret, pc, idx, amounts, old_stakes,
          own_hotkeys, successful_unstakes, neuron_info_decoded, neuron,
          neuron_lite, config, subnet_state, rows>>

chain == <<stake, balance>>
locals == <<idx, amounts, old_stakes, own_hotkeys, successful_unstakes>>
decoder == <<neuron_info_decoded, neuron, neuron_lite>>
command == <<config, subnet_state, rows>>

----------------------------------------------------------------------------
(* Bounds of the model *)

MaxTargets == 2      \* longest hotkey list given to unstake_multiple_extrinsic
MaxAmount == 2       \* largest amount requested as a Balance, in rao
MaxRateLimit == 1    \* largest tx_rate_limit the chain reports, in blocks
MaxFee == 1          \* largest transfer fee the chain estimates, in rao
MaxStakes == 2       \* longest stake list of a decoded neuron
MaxEdges == 2        \* longest weights or bonds list of a decoded neuron
MaxUids == 2         \* most neurons registered on the subnet shown
MaxEmission == 2     \* largest emission of one neuron, in rao

(* Program constants *)

RaoPerTao == 1000000000
BlockSeconds == 12

----------------------------------------------------------------------------
(* The world the orchestrators run in.  The orchestrators keep no state     *)
(* between calls: a behaviour is one call, started on any chain state.     *)

WalletColdkey == "ck_wallet"
WalletHotkey == "hk_own"
Hotkeys == {"hk_own", "hk_nom"}
NoHotkey == "None"

\* subtensor.get_hotkey_owner: hk_own belongs to the wallet's coldkey,
\* hk_nom to somebody else (a nomination).
HotkeyOwner == [h \in Hotkeys |-> IF h = "hk_own" THEN WalletColdkey ELSE "ck_other"]

\* Chain states a call starts on: each hotkey's stake and the balance take
\* each of the three amounts in one of the states.
Amounts == <<0, MaxAmount, RaoPerTao + 1>>
ChainStates ==
    {<<[h \in Hotkeys |-> IF h = "hk_own" THEN Amounts[i] ELSE Amounts[(i % 3) + 1]],
       Amounts[((i + 1) % 3) + 1]>> : i \in 1..3}

\* The single-target orchestrators are also started on every combination
\* of stakes and small balances.
ChainStatesSingle ==
    {<<[h \in Hotkeys |-> IF h = "hk_own" THEN Amounts[i] ELSE Amounts[j]], b>> :
        i \in 1..3, j \in 1..3, b \in (0..(MaxAmount + MaxFee + 2)) \cup {RaoPerTao + 1}}

\* Values the chain reports for its parameters.
MinStakeVals == {2}
EDVals == {0, 2}
RateLimitVals == 0..MaxRateLimit
FeeVals == 0..MaxFee
Responses == {"True", "False", "NotRegisteredError", "StakeError"}

\* An amount argument: None, a Balance (rao) or a float (tao).
NoneAmount == [t |-> "None", v |-> 0]
BalanceAmounts == {[t |-> "Balance", v |-> r] : r \in 0..MaxAmount}
FloatAmounts == {[t |-> "float", v |-> 1]}
AmountArgs == BalanceAmounts \cup FloatAmounts

\* One collaborator call: the operation, the hotkey it names ("-" if none),
\* the amount passed or returned (rao; seconds for sleep), the index of the
\* batch target it was made for, and the non-numeric result ("-" if none).
Ev(op, hk, amt, i, out) == <<op, hk, amt, i, out>>
Op(e) == e[1]
Hk(e) == e[2]
Amt(e) == e[3]
Ix(e) == e[4]
Out(e) == e[5]

NoCall ==
    [fn |-> "none", hotkey_ss58s |-> <<>>, amounts |-> <<>>, amounts_given |-> FALSE,
     wait_for_inclusion |-> FALSE, wait_for_finalization |-> FALSE,
     prompt |-> FALSE, keep_alive |-> FALSE, dest_valid |-> FALSE]

----------------------------------------------------------------------------
(* Balance *)

\* Balance.from_tao: tao to rao (whole tao amounts only in this model).
from_tao(tao) == tao * RaoPerTao

\* Mutation: "unstake it all" unstakes nothing.
ToBalance_NoneIsZero(amount, old_stake) ==
    IF amount.t = "None" THEN 0
    ELSE IF amount.t # "Balance" THEN from_tao(amount.v)
    ELSE amount.v

\* unstaking.py 150-157 and 334-341: the amount argument as a Balance.
ToBalance(amount, old_stake) ==
    IF amount.t = "None" THEN old_stake
    ELSE IF amount.t # "Balance" THEN from_tao(amount.v)
    ELSE amount.v

----------------------------------------------------------------------------
(* unstaking.py *)

\* The answers subtensor._do_unstake can give for an amount, given the chain
\* state: the chain accepts only what is staked; a call that waits for
\* neither inclusion nor finalization reports success on submission alone.
DoUnstakeResponses(hk, amount, wait_for_inclusion, wait_for_finalization) ==
    IF amount <= stake[hk] \/ (~wait_for_inclusion /\ ~wait_for_finalization)
    THEN Responses
    ELSE Responses \ {"True"}

\* Effect of an unstake on the chain: stake moves to the coldkey's balance.
StakeAfter(hk, amount, response) ==
    IF response = "True" /\ amount <= stake[hk]
    THEN [stake EXCEPT ![hk] = @ - amount]
    ELSE stake

BalanceAfterUnstake(hk, amount, response) ==
    IF response = "True" /\ amount <= stake[hk]
    THEN balance + amount
    ELSE balance

\* __do_remove_stake_single: decrypt the key, submit.
do_remove_stake_single(hk, amount, i, response) ==
    << Ev("wallet.coldkey", "-", 0, i, "-"),
       Ev("_do_unstake", hk, amount, i, response) >>

\* Mutation: the comparison with the minimum is turned around.
check_threshold_amount_Flipped(min_req_stake, stake_balance) ==
    IF min_req_stake < stake_balance /\ stake_balance > 0 THEN FALSE ELSE TRUE

\* check_threshold_amount, given the minimum the chain reported.
check_threshold_amount(min_req_stake, stake_balance) ==
    IF min_req_stake > stake_balance /\ stake_balance > 0 THEN FALSE ELSE TRUE

\* Mutation: a request for exactly the stake is rejected too.
NotEnoughStake_OrEqual(unstaking_balance, stake_on_uid) ==
    unstaking_balance >= stake_on_uid

\* "Check enough to unstake."
NotEnoughStake(unstaking_balance, stake_on_uid) ==
    unstaking_balance > stake_on_uid

\* Mutation: the threshold is applied to the wallet's own hotkeys too.
ThresholdAmount_IgnoresOwner(own_hotkey, min_req_stake, stake_on_uid, unstaking_balance) ==
    IF ~check_threshold_amount(min_req_stake, stake_on_uid - unstaking_balance)
    THEN stake_on_uid
    ELSE unstaking_balance

\* "If nomination stake, check threshold.": the amount to unstake after it.
ThresholdAmount(own_hotkey, min_req_stake, stake_on_uid, unstaking_balance) ==
    IF ~own_hotkey /\ ~check_threshold_amount(min_req_stake, stake_on_uid - unstaking_balance)
    THEN stake_on_uid
    ELSE unstaking_balance

\* The chain queries of that step: the minimum is read for nominations only.
ThresholdQueries(own_hotkey, min_req_stake, i) ==
    IF ~own_hotkey
    THEN << Ev("get_minimum_required_stake", "-", min_req_stake, i, "-") >>
    ELSE << >>

\* "Ask before moving on.": the prompt, if any.  The hotkey it names is
\* wallet.hotkey_str (182 and 366), the wallet's own hotkey, whatever the
\* hotkey hk the stake is taken from.
AskQueries(prompt, answer, hk, unstaking_balance, i) ==
    IF prompt
    THEN << Ev("Confirm.ask", WalletHotkey, unstaking_balance, i,
               IF answer THEN "yes" ELSE "no") >>
    ELSE << >>

\* Mutation: the answer is read the wrong way round.
Declined_Inverted(prompt, answer) == prompt /\ answer

Declined(prompt, answer) == prompt /\ ~answer

\* Mutation: only wait_for_finalization is looked at.
NoWait_FinalizationOnly(wait_for_inclusion, wait_for_finalization) ==
    ~wait_for_finalization

\* "We only wait here if we expect finalization."
NoWait(wait_for_inclusion, wait_for_finalization) ==
    ~wait_for_finalization /\ ~wait_for_inclusion

\* Mutation: the keys are not decrypted ahead of the chain queries.
decrypt_coldkey_Skipped == << >>

\* 131-132 and 309-310: "Decrypt keys," (wallet.coldkey).
decrypt_coldkey == << Ev("wallet.coldkey", "-", 0, 0, "-") >>

\* Mutation: only StakeError is caught.
Handled_StakeErrorOnly(response) == response = "StakeError"

\* 238-247 and 430-439: the exceptions the except clauses catch.
Handled(response) == response \in {"NotRegisteredError", "StakeError"}

\* Mutation: the "Unknown Error" branch returns True.
FailureResult_UnknownIsTrue(response) ==
    IF response = "False" THEN "True"
    ELSE IF Handled(response) THEN "False" ELSE response

\* What the orchestrator's caller sees of a submission that did not succeed:
\* a False result (232-236 and the except clauses), or the exception itself
\* when no except clause catches it.
FailureResult(response) ==
    IF response = "False" \/ Handled(response) THEN "False" ELSE response

\* unstake_extrinsic 202-231: the re-queries after a successful unstake.
UnstakeReport(hk, wait_for_inclusion, wait_for_finalization, new_balance, new_stake) ==
    IF NoWait(wait_for_inclusion, wait_for_finalization)
    THEN << >>
    ELSE << Ev("get_balance", "-", new_balance, 0, "-"),
            Ev("get_stake_for_coldkey_and_hotkey", hk, new_stake, 0, "-") >>

unstake_extrinsic(hotkey_ss58, amount, wait_for_inclusion, wait_for_finalization, prompt) ==
    /\ pc = "idle"
    /\ \E min_req_stake \in MinStakeVals, answer \in BOOLEAN :
        LET hk == IF hotkey_ss58 = NoHotkey THEN WalletHotkey ELSE hotkey_ss58
            old_balance == balance
            old_stake == stake[hk]
            own_hotkey == (WalletColdkey = HotkeyOwner[hk])
            sync == decrypt_coldkey \o <<
                       Ev("get_balance", "-", old_balance, 0, "-"),
                       Ev("get_stake_for_coldkey_and_hotkey", hk, old_stake, 0, "-"),
                       Ev("get_hotkey_owner", hk, 0, 0, HotkeyOwner[hk]) >>
            requested == ToBalance(amount, old_stake)
            stake_on_uid == old_stake
            unstaking_balance ==
                ThresholdAmount(own_hotkey, min_req_stake, stake_on_uid, requested)
            checked == sync \o ThresholdQueries(own_hotkey, min_req_stake, 0)
            asked == checked \o AskQueries(prompt, answer, hk, unstaking_balance, 0)
        IN  /\ call' = [NoCall EXCEPT !.fn = "unstake_extrinsic",
                                      !.hotkey_ss58s = <<hotkey_ss58>>,
                                      !.amounts = <<amount>>,
                                      !.amounts_given = (amount.t # "None"),
                                      !.wait_for_inclusion = wait_for_inclusion,
                                      !.wait_for_finalization = wait_for_finalization,
                                      !.prompt = prompt]
            /\ pc' = "done"
            /\ UNCHANGED locals
            /\ IF NotEnoughStake(requested, stake_on_uid)
               THEN /\ log' = sync
                    /\ ret' = "False"
                    /\ UNCHANGED chain
               ELSE IF Declined(prompt, answer)
               THEN /\ log' = asked
                    /\ ret' = "False"
                    /\ UNCHANGED chain
               ELSE \E response \in DoUnstakeResponses(hk, unstaking_balance,
                                       wait_for_inclusion, wait_for_finalization) :
                    LET new_stake == StakeAfter(hk, unstaking_balance, response)
                        new_balance == BalanceAfterUnstake(hk, unstaking_balance, response)
                        submitted == asked \o do_remove_stake_single(hk, unstaking_balance, 0, response)
                    IN  /\ stake' = new_stake
                        /\ balance' = new_balance
                        /\ IF response = "True"
                           THEN /\ log' = submitted \o UnstakeReport(hk, wait_for_inclusion,
                                              wait_for_finalization, new_balance, new_stake[hk])
                                /\ ret' = "True"
                           ELSE /\ log' = submitted
                                /\ ret' = FailureResult(response)

UnstakeExtrinsicCall ==
    /\ pc = "idle"
    /\ UNCHANGED <<decoder, command>>
    /\ \E hotkey_ss58 \in Hotkeys \cup {NoHotkey},
       amount \in AmountArgs \cup {NoneAmount},
       wait_for_inclusion \in BOOLEAN, wait_for_finalization \in BOOLEAN,
       prompt \in BOOLEAN :
        unstake_extrinsic(hotkey_ss58, amount, wait_for_inclusion,
                          wait_for_finalization, prompt)

----------------------------------------------------------------------------
(* unstake_multiple_extrinsic *)

\* 299-303: floats become Balances, Balances stay.
ConvertAmounts(as) ==
    [i \in 1..Len(as) |->
        IF as[i].t = "float" THEN [t |-> "Balance", v |-> from_tao(as[i].v)] ELSE as[i]]

\* Mutation: the early return for a zero sum is left out.
ZeroTao_Never(as) == FALSE

\* 305: sum(amount.tao for amount in amounts) == 0.  Amounts are not
\* negative, so their sum is zero exactly when each of them is zero.
ZeroTao(as) == \A i \in 1..Len(as) : as[i].v = 0

\* 312-328: the stake and ownership queries, one pair per hotkey in order.
RECURSIVE SyncQueries(_, _)
SyncQueries(hks, i) ==
    IF i > Len(hks) THEN << >>
    ELSE << Ev("get_stake_for_coldkey_and_hotkey", hks[i], stake[hks[i]], i - 1, "-"),
            Ev("get_hotkey_owner", hks[i], 0, i - 1, HotkeyOwner[hks[i]]) >>
         \o SyncQueries(hks, i + 1)

\* 278-328: argument checks, conversion, unlock and the reads before the loop.
\* amounts_arg is None (given = FALSE) or a list.
unstake_multiple_begin(hotkey_ss58s, given, amounts_arg, wait_for_inclusion, wait_for_finalization, prompt) ==
    /\ pc = "idle"
    /\ call' = [NoCall EXCEPT !.fn = "unstake_multiple_extrinsic",
                              !.hotkey_ss58s = hotkey_ss58s,
                              !.amounts = amounts_arg,
                              !.amounts_given = given,
                              !.wait_for_inclusion = wait_for_inclusion,
                              !.wait_for_finalization = wait_for_finalization,
                              !.prompt = prompt]
    /\ UNCHANGED chain
    /\ idx' = 0
    /\ successful_unstakes' = 0
    /\ IF Len(hotkey_ss58s) = 0
       THEN /\ ret' = "True"
            /\ pc' = "done"
            /\ log' = << >>
            /\ UNCHANGED <<amounts, old_stakes, own_hotkeys>>
       ELSE IF given /\ Len(amounts_arg) # Len(hotkey_ss58s)
       THEN /\ ret' = "ValueError"
            /\ pc' = "done"
            /\ log' = << >>
            /\ UNCHANGED <<amounts, old_stakes, own_hotkeys>>
       ELSE IF given /\ ZeroTao(ConvertAmounts(amounts_arg))
       THEN /\ ret' = "True"
            /\ pc' = "done"
            /\ log' = << >>
            /\ UNCHANGED <<amounts, old_stakes, own_hotkeys>>
       ELSE /\ amounts' = IF given THEN ConvertAmounts(amounts_arg)
                          ELSE [i \in 1..Len(hotkey_ss58s) |-> NoneAmount]
            /\ old_stakes' = [i \in 1..Len(hotkey_ss58s) |-> stake[hotkey_ss58s[i]]]
            /\ own_hotkeys' = [i \in 1..Len(hotkey_ss58s) |->
                                  WalletColdkey = HotkeyOwner[hotkey_ss58s[i]]]
            /\ log' = decrypt_coldkey \o <<
                         Ev("get_balance", "-", balance, 0, "-") >>
                      \o SyncQueries(hotkey_ss58s, 1)
            /\ ret' = "running"
            /\ pc' = "loop"

\* Mutation: the last index is not excepted.
NotLastIndex_OffByOne(i, n) == i < n

\* 389: a pause is considered after every success but the one at the last index.
NotLastIndex(i, n) == i < n - 1

\* 389-398: the rate-limit query and the pause after a successful unstake.
RateLimitWait(i, n, tx_rate_limit_blocks) ==
    IF NotLastIndex(i, n)
    THEN << Ev("tx_rate_limit", "-", tx_rate_limit_blocks, i, "-") >>
         \o (IF tx_rate_limit_blocks > 0
             THEN << Ev("sleep", "-", tx_rate_limit_blocks * BlockSeconds, i, "-") >>
             ELSE << >>)
    ELSE << >>

\* 400-423: the re-query of the target's stake after a successful unstake.
MultipleReport(hk, i, wait_for_inclusion, wait_for_finalization, new_stake) ==
    IF NoWait(wait_for_inclusion, wait_for_finalization)
    THEN << >>
    ELSE << Ev("get_current_block", "-", 0, i, "-"),
            Ev("get_stake_for_coldkey_and_hotkey", hk, new_stake, i, "-") >>

\* Mutation: one success is not enough.
MultipleResult_OffByOne(successes) == IF successes > 1 THEN "True" ELSE "False"

\* 441-455: the result of the batch.
MultipleResult(successes) == IF successes # 0 THEN "True" ELSE "False"

\* 441-453: the balance is read again when something was unstaked.
FinalReport(successes, n, new_balance) ==
    IF successes # 0
    THEN << Ev("get_balance", "-", new_balance, n, "-") >>
    ELSE << >>

\* Mutation: a failed target ends the loop (break instead of continue).
AfterSkip_Break(i, n) == n

\* 351, 369, 428, 434, 439: every failure path ends in `continue`.
AfterSkip(i, n) == i + 1

\* 331: enumerate() moves to the next target after an iteration.
NextTarget(i, n) == i + 1

\* 331-455: one iteration of the loop, for the target at index idx; after
\* the last one the function returns.
unstake_multiple_target ==
    /\ pc = "loop"
    /\ UNCHANGED <<decoder, command>>
    /\ idx < Len(call.hotkey_ss58s)
    /\ \E min_req_stake \in MinStakeVals, answer \in BOOLEAN,
          tx_rate_limit_blocks \in RateLimitVals :
        LET n == Len(call.hotkey_ss58s)
            hotkey_ss58 == call.hotkey_ss58s[idx + 1]
            amount == amounts[idx + 1]
            old_stake == old_stakes[idx + 1]
            own_hotkey == own_hotkeys[idx + 1]
            requested == ToBalance(amount, old_stake)
            stake_on_uid == old_stake
            unstaking_balance ==
                ThresholdAmount(own_hotkey, min_req_stake, stake_on_uid, requested)
            checked == log \o ThresholdQueries(own_hotkey, min_req_stake, idx)
            asked == checked \o AskQueries(call.prompt, answer, hotkey_ss58,
                                           unstaking_balance, idx)
            \* the end of the iteration: next target, or the return
            Continue(log1, successes, new_balance, next) ==
                /\ successful_unstakes' = successes
                /\ idx' = next
                /\ IF next < n
                   THEN /\ log' = log1
                        /\ UNCHANGED <<pc, ret>>
                   ELSE /\ log' = log1 \o FinalReport(successes, n, new_balance)
                        /\ ret' = MultipleResult(successes)
                        /\ pc' = "done"
        IN  /\ UNCHANGED <<call, amounts, old_stakes, own_hotkeys>>
            /\ IF NotEnoughStake(requested, stake_on_uid)
               THEN /\ UNCHANGED chain
                    /\ Continue(log, successful_unstakes, balance, AfterSkip(idx, n))
               ELSE IF Declined(call.prompt, answer)
               THEN /\ UNCHANGED chain
                    /\ Continue(asked, successful_unstakes, balance, AfterSkip(idx, n))
               ELSE \E response \in DoUnstakeResponses(hotkey_ss58, unstaking_balance,
                              call.wait_for_inclusion, call.wait_for_finalization) :
                    LET new_stake == StakeAfter(hotkey_ss58, unstaking_balance, response)
                        new_balance == BalanceAfterUnstake(hotkey_ss58,
                                                           unstaking_balance, response)
                        submitted == asked \o do_remove_stake_single(hotkey_ss58,
                                                  unstaking_balance, idx, response)
                    IN  /\ stake' = new_stake
                        /\ balance' = new_balance
                        /\ IF response = "True"
                           THEN Continue(submitted
                                       \o RateLimitWait(idx, n, tx_rate_limit_blocks)
                                       \o MultipleReport(hotkey_ss58, idx,
                                              call.wait_for_inclusion,
                                              call.wait_for_finalization,
                                              new_stake[hotkey_ss58]),
                                    successful_unstakes + 1, new_balance,
                                    NextTarget(idx, n))
                           ELSE IF FailureResult(response) = "False"
                           THEN Continue(submitted, successful_unstakes, new_balance,
                                         AfterSkip(idx, n))
                           ELSE \* an exception no except clause catches ends the call
                                /\ log' = submitted
                                /\ ret' = FailureResult(response)
                                /\ pc' = "done"
                                /\ UNCHANGED <<idx, successful_unstakes>>

SeqsUpTo(S, n) == UNION {[1..m -> S] : m \in 0..n}

UnstakeMultipleCall ==
    /\ pc = "idle"
    /\ UNCHANGED <<decoder, command>>
    /\ \E hotkey_ss58s \in SeqsUpTo(Hotkeys, MaxTargets),
       wait_for_inclusion \in BOOLEAN, wait_for_finalization \in BOOLEAN,
       prompt \in BOOLEAN :
        \/ unstake_multiple_begin(hotkey_ss58s, FALSE, << >>, wait_for_inclusion,
                                  wait_for_finalization, prompt)
        \/ \E m \in {Len(hotkey_ss58s) - 1, Len(hotkey_ss58s), Len(hotkey_ss58s) + 1}
                        \cap (0..MaxTargets) :
              \E amounts_arg \in [1..m -> AmountArgs] :
                 unstake_multiple_begin(hotkey_ss58s, TRUE, amounts_arg,
                     wait_for_inclusion, wait_for_finalization, prompt)

----------------------------------------------------------------------------
(* transfer.py *)

\* 73-77: the amount argument as a Balance.
ToTransferBalance(amount) ==
    IF amount.t # "Balance" THEN from_tao(amount.v) ELSE amount.v

\* 90-92: the deposit that has to stay on the account.
KeptDeposit(keep_alive, existential_deposit) ==
    IF ~keep_alive THEN 0 ELSE existential_deposit

\* Mutation: a balance that is exactly enough is refused.
NotEnoughBalance_OrEqual(account_balance, transfer_balance, fee, existential_deposit) ==
    account_balance <= transfer_balance + fee + existential_deposit

\* 94-95: "Check if we have enough balance."
NotEnoughBalance(account_balance, transfer_balance, fee, existential_deposit) ==
    account_balance < transfer_balance + fee + existential_deposit

\* transfer.py 81, 109 and 143: wallet.coldkey, evaluated for its address.
coldkey_address == << Ev("wallet.coldkey", "-", 0, 0, "-") >>

\* Mutation: the balance is read again only when the call waited, as
\* unstake_extrinsic does.
TransferReport_OnlyIfWaited(success, wait_for_inclusion, wait_for_finalization, new_balance) ==
    IF success /\ (wait_for_inclusion \/ wait_for_finalization)
    THEN coldkey_address \o << Ev("get_balance", "-", new_balance, 0, "-") >>
    ELSE << >>

\* 141-147: the balance is read again after a successful transfer, at the
\* address of wallet.coldkey.
TransferReport(success, wait_for_inclusion, wait_for_finalization, new_balance) ==
    IF success
    THEN coldkey_address \o << Ev("get_balance", "-", new_balance, 0, "-") >>
    ELSE << >>

\* Effect of a transfer on the chain: amount and fee leave the account.
BalanceAfterTransfer(transfer_balance, fee, success) ==
    IF success THEN balance - transfer_balance - fee ELSE balance

\* transfer.py 70-71: "Unlock wallet coldkey."
unlock_coldkey == << Ev("unlock_coldkey", "-", 0, 0, "-") >>

\* Mutation: every destination is taken as valid.
InvalidDestination_Never(dest_valid) == FALSE

\* transfer.py 59-64: the destination is neither a valid ss58 address nor a
\* public key (dest_valid is is_valid_bittensor_address_or_public_key(dest)).
InvalidDestination(dest_valid) == ~dest_valid

transfer_extrinsic(dest_valid, amount, wait_for_inclusion, wait_for_finalization, keep_alive, prompt) ==
    /\ pc = "idle"
    /\ pc' = "done"
    /\ call' = [NoCall EXCEPT !.fn = "transfer_extrinsic",
                              !.amounts = <<amount>>,
                              !.amounts_given = TRUE,
                              !.wait_for_inclusion = wait_for_inclusion,
                              !.wait_for_finalization = wait_for_finalization,
                              !.prompt = prompt,
                              !.keep_alive = keep_alive,
                              !.dest_valid = dest_valid]
    /\ UNCHANGED <<stake, locals>>
    /\ IF InvalidDestination(dest_valid)
       THEN /\ log' = << >>
            /\ ret' = "False"
            /\ UNCHANGED balance
       ELSE \E chain_deposit \in EDVals, fee \in FeeVals, answer \in BOOLEAN :
            LET transfer_balance == ToTransferBalance(amount)
                account_balance == balance
                existential_deposit == KeptDeposit(keep_alive, chain_deposit)
                checked == unlock_coldkey \o coldkey_address \o <<
                              Ev("get_balance", "-", account_balance, 0, "-"),
                              Ev("get_existential_deposit", "-", chain_deposit, 0, "-"),
                              Ev("get_transfer_fee", "-", fee, 0, "-") >>
                asked == checked \o
                    (IF prompt
                     THEN coldkey_address \o
                          << Ev("Confirm.ask", "-", transfer_balance, 0,
                                IF answer THEN "yes" ELSE "no") >>
                     ELSE << >>)
            IN  IF NotEnoughBalance(account_balance, transfer_balance, fee,
                                    existential_deposit)
                THEN /\ log' = checked
                     /\ ret' = "False"
                     /\ UNCHANGED balance
                ELSE IF Declined(prompt, answer)
                THEN /\ log' = asked
                     /\ ret' = "False"
                     /\ UNCHANGED balance
                ELSE \E success \in BOOLEAN :
                     LET new_balance == BalanceAfterTransfer(transfer_balance, fee, success)
                     IN  /\ balance' = new_balance
                         /\ log' = Append(asked, Ev("do_transfer", "-", transfer_balance, 0,
                                                    IF success THEN "True" ELSE "False"))
                                   \o TransferReport(success, wait_for_inclusion,
                                                     wait_for_finalization, new_balance)
                         /\ ret' = IF success THEN "True" ELSE "False"

TransferExtrinsicCall ==
    /\ pc = "idle"
    /\ UNCHANGED <<decoder, command>>
    /\ \E dest_valid \in BOOLEAN, amount \in AmountArgs,
          wait_for_inclusion \in BOOLEAN, wait_for_finalization \in BOOLEAN,
          keep_alive \in BOOLEAN, prompt \in BOOLEAN :
        transfer_extrinsic(dest_valid, amount, wait_for_inclusion,
                           wait_for_finalization, keep_alive, prompt)

----------------------------------------------------------------------------
(* neuron_info.py *)

\* Account ids as the chain encodes them (32 bytes each, named here).
AccountIds == {"id0", "id1", "id2"}

\* ss58_encode(account_id, SS58_FORMAT): one address string per account id.
ss58_encode(account_id) ==
    CASE account_id = "id0" -> "5_id0"
      [] account_id = "id1" -> "5_id1"
      [] account_id = "id2" -> "5_id2"

\* decode_account_id(account_id_bytes): the same encoding, on the other path.
decode_account_id(account_id_bytes) == ss58_encode(account_id_bytes)

\* Python values a stake field can hold: a Balance, a bare int, None.
Balance(rao) == [t |-> "Balance", v |-> rao]
PyInt(n) == [t |-> "int", v |-> n]
PyNone == [t |-> "None", v |-> 0]

\* Balance.__eq__: a Balance equals a Balance or a number of the same rao,
\* and never None.
BalanceEq(a, b) == a.t # "None" /\ b.t # "None" /\ a.v = b.v

\* A float, kept exact as numerator over denominator.
Ratio(num, den) == <<num, den>>

\* u16_normalized_float(x): x / 65535.
u16_normalized_float(x) == Ratio(x, 65535)

\* str(netaddr.IPAddress(ip)) for the two addresses of the model.
IPAddress(ip) == IF ip = 0 THEN "0.0.0.0" ELSE "0.0.0.1"

\* 57-60: the dict comprehension, entry by entry; a coldkey listed again
\* replaces its entry.
RECURSIVE stake_dict_comprehension(_, _)
stake_dict_comprehension(stake_list, n) ==
    IF n = 0 THEN << >>
    ELSE LET d == stake_dict_comprehension(stake_list, n - 1)
             coldkey == ss58_encode(stake_list[n][1])
         IN  [a \in DOMAIN d \cup {coldkey} |->
                 IF a = coldkey THEN Balance(stake_list[n][2]) ELSE d[a]]

\* process_stake_data(n.stake): the list as a mapping address -> Balance,
\* updated entry by entry.
RECURSIVE process_stake_data(_, _)
process_stake_data(stake_list, n) ==
    IF n = 0 THEN << >>
    ELSE LET d == process_stake_data(stake_list, n - 1)
             account_id == decode_account_id(stake_list[n][1])
         IN  [a \in DOMAIN d \cup {account_id} |->
                 IF a = account_id THEN Balance(stake_list[n][2]) ELSE d[a]]

RECURSIVE SumRao(_, _)
SumRao(d, keys) ==
    IF keys = {} THEN 0
    ELSE LET k == CHOOSE k \in keys : TRUE
         IN  d[k].v + SumRao(d, keys \ {k})

\* Python's sum(d.values()): it starts from the int 0, and int + Balance is
\* a Balance.
sum_values(d) ==
    IF DOMAIN d = {} THEN PyInt(0) ELSE Balance(SumRao(d, DOMAIN d))

\* Mutation: the largest stake is taken for the total.
fix_stake_Largest(stake_dict) ==
    IF DOMAIN stake_dict = {} THEN PyInt(0)
    ELSE Balance(CHOOSE m \in {stake_dict[k].v : k \in DOMAIN stake_dict} :
                    \A k \in DOMAIN stake_dict : stake_dict[k].v <= m)

\* 62: neuron_info_decoded["stake"] = sum(stake_dict.values())
fix_stake(stake_dict) == sum_values(stake_dict)

\* Mutation: no stake is no total.
total_stake_NoneIfEmpty(stake_dict) ==
    IF DOMAIN stake_dict # {} THEN sum_values(stake_dict) ELSE PyNone

\* 142: total_stake = sum(stake_dict.values()) if stake_dict else Balance(0)
total_stake(stake_dict) ==
    IF DOMAIN stake_dict # {} THEN sum_values(stake_dict) ELSE Balance(0)

\* 64-70: [[int(w[0]), int(w[1])] for w in ...]; the entries are integers
\* already, which int() returns as they are.
fix_adjacency(pairs) ==
    [i \in DOMAIN pairs |-> << pairs[i][1], pairs[i][2] >>]

\* Mutation: the list is built back to front.
adjacency_Reversed(pairs) ==
    [i \in DOMAIN pairs |-> << pairs[Len(pairs) + 1 - i][1], pairs[Len(pairs) + 1 - i][2] >>]

\* 164-165: [[e[0], e[1]] for e in n.weights]
adjacency(pairs) ==
    [i \in DOMAIN pairs |-> << pairs[i][1], pairs[i][2] >>]

\* 132-133: the address string of the null neuron.
NullAddress == "000000000000000000000000000000000000000000000000"

\* None, for the optional axon_info and prometheus_info.
NoInfo == [is_none |-> TRUE]

\* 109-136
get_null_neuron ==
    [hotkey |-> NullAddress, coldkey |-> NullAddress,
     uid |-> 0, netuid |-> 0, active |-> 0,
     stake |-> Balance(0), stake_dict |-> << >>, total_stake |-> Balance(0),
     rank |-> Ratio(0, 1), emission |-> Ratio(0, 1), incentive |-> Ratio(0, 1),
     consensus |-> Ratio(0, 1), trust |-> Ratio(0, 1),
     validator_trust |-> Ratio(0, 1), dividends |-> Ratio(0, 1),
     last_update |-> 0, validator_permit |-> FALSE,
     weights |-> << >>, bonds |-> << >>, pruning_score |-> 0,
     prometheus_info |-> NoInfo, axon_info |-> NoInfo, is_null |-> TRUE]

\* 167-173: the PrometheusInfo of a decoded neuron.
PrometheusInfoOf(p) ==
    [is_none |-> FALSE, block |-> p.block, version |-> p.version,
     ip |-> IPAddress(p.ip), port |-> p.port, ip_type |-> p.ip_type]

\* 174-184: the AxonInfo of a decoded neuron.
AxonInfoOf(axon_info, hotkey, coldkey) ==
    [is_none |-> FALSE, version |-> axon_info.version,
     ip |-> IPAddress(axon_info.ip), port |-> axon_info.port,
     ip_type |-> axon_info.ip_type, hotkey |-> hotkey, coldkey |-> coldkey]

\* Mutation: the record is flagged as the null neuron.
IsNullOfDecoded_True == TRUE

\* 185: is_null=False
IsNullOfDecoded == FALSE

\* 138-186: n is bt_decode.NeuronInfo.decode(bytes(vec_u8)).
from_vec_u8(n) ==
    LET stake_dict == process_stake_data(n.stake, Len(n.stake))
        total == total_stake(stake_dict)
        coldkey == decode_account_id(n.coldkey)
        hotkey == decode_account_id(n.hotkey)
    IN  [hotkey |-> hotkey, coldkey |-> coldkey,
         uid |-> n.uid, netuid |-> n.netuid, active |-> n.active,
         stake |-> total, stake_dict |-> stake_dict, total_stake |-> total,
         rank |-> u16_normalized_float(n.rank),
         emission |-> Ratio(n.emission, RaoPerTao),
         incentive |-> u16_normalized_float(n.incentive),
         consensus |-> u16_normalized_float(n.consensus),
         trust |-> u16_normalized_float(n.trust),
         validator_trust |-> u16_normalized_float(n.validator_trust),
         dividends |-> u16_normalized_float(n.dividends),
         last_update |-> n.last_update, validator_permit |-> n.validator_permit,
         weights |-> adjacency(n.weights), bonds |-> adjacency(n.bonds),
         pruning_score |-> n.pruning_score,
         prometheus_info |-> PrometheusInfoOf(n.prometheus_info),
         axon_info |-> AxonInfoOf(n.axon_info, hotkey, coldkey),
         is_null |-> IsNullOfDecoded]

\* 49-93: the dict after the assignments of fix_decoded_values (the dict
\* is changed in place; "stake_dict" and "total_stake" are new keys).
fixed_dict(d) ==
    LET stake_dict == stake_dict_comprehension(d.stake, Len(d.stake))
        stake_sum == fix_stake(stake_dict)
        hotkey == ss58_encode(d.hotkey)
        coldkey == ss58_encode(d.coldkey)
    IN  [hotkey |-> hotkey, coldkey |-> coldkey,
         uid |-> d.uid, netuid |-> d.netuid, active |-> d.active,
         stake |-> stake_sum, stake_dict |-> stake_dict, total_stake |-> stake_sum,
         rank |-> u16_normalized_float(d.rank),
         emission |-> Ratio(d.emission, RaoPerTao),
         incentive |-> u16_normalized_float(d.incentive),
         consensus |-> u16_normalized_float(d.consensus),
         trust |-> u16_normalized_float(d.trust),
         validator_trust |-> u16_normalized_float(d.validator_trust),
         dividends |-> u16_normalized_float(d.dividends),
         last_update |-> d.last_update, validator_permit |-> d.validator_permit,
         weights |-> fix_adjacency(d.weights), bonds |-> fix_adjacency(d.bonds),
         pruning_score |-> d.pruning_score,
         prometheus_info |-> PrometheusInfoOf(d.prometheus_info),
         axon_info |-> AxonInfoOf(d.axon_info, hotkey, coldkey)]

\* 94 and 46: cls(**neuron_info_decoded); is_null is left at its default.
fix_decoded_values(d) ==
    [f \in DOMAIN fixed_dict(d) \cup {"is_null"} |->
        IF f = "is_null" THEN FALSE ELSE fixed_dict(d)[f]]

\* The decoded chain objects the decoder is run on.
StakeEntries == {<<a, r>> : a \in {"id1", "id2"}, r \in {0, 1, 2}}
WeightEntries == {<<1, 100>>, <<2, 200>>, <<2, 100>>}
BondEntries == {<<1, 100>>, <<2, 200>>}

\* z = 0: every scalar field zero and the all-zero account; z = 1: none zero.
Decoded(stake_list, weights, bonds, z) ==
    [hotkey |-> IF z = 0 THEN "id0" ELSE "id1",
     coldkey |-> IF z = 0 THEN "id0" ELSE "id2",
     uid |-> z, netuid |-> z, active |-> z,
     stake |-> stake_list,
     rank |-> z * 65535, emission |-> z * 500000000, incentive |-> z * 32768,
     consensus |-> z, trust |-> z, validator_trust |-> z, dividends |-> z,
     last_update |-> z * 100, validator_permit |-> (z = 1),
     weights |-> weights, bonds |-> bonds, pruning_score |-> z,
     prometheus_info |-> [block |-> z, version |-> z, ip |-> z, port |-> z * 9090,
                          ip_type |-> z * 4],
     axon_info |-> [version |-> z, ip |-> z, port |-> z * 8091, ip_type |-> z * 4]]

DecodedInputs ==
    {Decoded(stake_list, weights, bonds, z) :
        stake_list \in SeqsUpTo(StakeEntries, MaxStakes),
        weights \in SeqsUpTo(WeightEntries, MaxEdges),
        bonds \in SeqsUpTo(BondEntries, MaxEdges),
        z \in {0, 1}}

\* The calls of the decoder; the argument is kept in call, as
\* fix_decoded_values changes the dict it is given.
DecoderCall(fn) == [fn |-> fn, arg |-> neuron_info_decoded]

FromVecU8 ==
    /\ pc = "idle"
    /\ call' = DecoderCall("NeuronInfo.from_vec_u8")
    /\ neuron' = from_vec_u8(neuron_info_decoded)
    /\ pc' = "done"
    /\ UNCHANGED <<neuron_info_decoded, neuron_lite, chain, log, ret, locals, command>>

FixDecodedValues ==
    /\ pc = "idle"
    /\ call' = DecoderCall("NeuronInfo.fix_decoded_values")
    /\ neuron_info_decoded' = fixed_dict(neuron_info_decoded)
    /\ neuron' = fix_decoded_values(neuron_info_decoded)
    /\ pc' = "done"
    /\ UNCHANGED <<neuron_lite, chain, log, ret, locals, command>>

GetNullNeuron ==
    /\ pc = "idle"
    /\ call' = DecoderCall("NeuronInfo.get_null_neuron")
    /\ neuron' = get_null_neuron
    /\ pc' = "done"
    /\ UNCHANGED <<neuron_info_decoded, neuron_lite, chain, log, ret, locals, command>>

\* 103-105: n_dict is neuron_lite.__dict__ itself, not a copy of it; the
\* two assignments add (or overwrite) its "weights" and "bonds" entries.
\* dict.get(uid, []) is the entry for uid, or the empty list.
DictGet(as_dict, uid) == IF uid \in DOMAIN as_dict THEN as_dict[uid] ELSE << >>
n_dict(lite, weights_as_dict, bonds_as_dict) ==
    [f \in DOMAIN lite \cup {"weights", "bonds"} |->
        IF f = "weights" THEN DictGet(weights_as_dict, lite.uid)
        ELSE IF f = "bonds" THEN DictGet(bonds_as_dict, lite.uid)
        ELSE lite[f]]

\* 96-107: cls(**n_dict)
from_weights_bonds_and_neuron_lite(lite, weights_as_dict, bonds_as_dict) ==
    n_dict(lite, weights_as_dict, bonds_as_dict)

\* The lite neurons (NeuronInfoLite: the fields of NeuronInfo but weights
\* and bonds) and the uid -> list dictionaries the call is made with.
LiteOf(n) == [f \in DOMAIN n \ {"weights", "bonds"} |-> n[f]]
LiteNeurons ==
    {LiteOf(get_null_neuron)} \cup
    {LiteOf(from_vec_u8(Decoded(stake_list, << >>, << >>, z))) :
        stake_list \in SeqsUpTo(StakeEntries, 1), z \in {0, 1}}
EdgeLists == {<< <<1, 100>> >>, << <<2, 200>>, <<1, 100>> >>}
AsDicts == UNION {[uids -> EdgeLists] : uids \in SUBSET (0..(MaxUids - 1))}

FromWeightsBondsAndNeuronLite ==
    /\ pc = "idle"
    /\ \E weights_as_dict \in AsDicts, bonds_as_dict \in AsDicts :
          /\ call' = [fn |-> "NeuronInfo.from_weights_bonds_and_neuron_lite",
                      arg |-> neuron_lite,
                      weights_as_dict |-> weights_as_dict,
                      bonds_as_dict |-> bonds_as_dict]
          /\ neuron_lite' = n_dict(neuron_lite, weights_as_dict, bonds_as_dict)
          /\ neuron' = from_weights_bonds_and_neuron_lite(neuron_lite,
                           weights_as_dict, bonds_as_dict)
    /\ pc' = "done"
    /\ UNCHANGED <<neuron_info_decoded, chain, log, ret, locals, command>>

----------------------------------------------------------------------------
(* show.py *)

\* config.get('netuid') when --netuid was not given: None.
NoNetuid == -1

NetUids == {0, 1, 2}

\* 43-44: the configurations the parser can produce.
Configs ==
    {[netuid_is_set |-> (n # NoNetuid), netuid |-> n, no_prompt |-> p] :
        n \in NetUids \cup {NoNetuid}, p \in BOOLEAN}

\* What the user types at "Enter netuid": nothing, a number, or no number.
PromptInputs == {"", "0", "1", "2", "x"}

\* Prompt.ask(..., default="0"): the default stands in for an empty line.
PromptAsk(typed, default) == IF typed = "" THEN default ELSE typed

\* int(text): the number written, or ValueError (NoNetuid here).
ParseInt(text) ==
    CASE text = "0" -> 0
      [] text = "1" -> 1
      [] text = "2" -> 2
      [] OTHER -> NoNetuid

\* Mutation: no_prompt is not looked at.
NetuidSource_PromptAnyway(cfg) ==
    IF cfg.netuid_is_set THEN "config" ELSE "prompt"

\* 57-63: where the netuid comes from.
NetuidSource(cfg) ==
    IF cfg.netuid_is_set THEN "config"
    ELSE IF ~cfg.no_prompt THEN "prompt"
    ELSE "exit"

\* 65: the root network is netuid 0.
IsRoot(netuid) == netuid = 0

\* The global stakes (rao) a registered hotkey can hold.
GlobalStakes == {1, 2}

\* The subnet states the chain can hold: the subnet exists or not, and one
\* hotkey, one emission and one global stake per registered uid.
SubnetStates ==
    {[exists |-> x,
      hotkeys |-> [i \in 1..n |-> ss58_encode(IF i % 2 = 1 THEN "id1" ELSE "id2")],
      emission |-> e,
      global_stake |-> g] :
        x \in BOOLEAN, n \in 0..MaxUids, e \in SeqsUpTo(0..MaxEmission, MaxUids),
        g \in SeqsUpTo(GlobalStakes, MaxUids)}

RECURSIVE SumSeq(_, _)
SumSeq(seq, n) == IF n = 0 THEN 0 ELSE SumSeq(seq, n - 1) + seq[n]

\* 216: the sum of the emissions (.tao is rao / 10^9 on every term, which
\* leaves the quotient of 218 as it is; the model keeps rao).
emission_sum(state) == SumSeq(state.emission, Len(state.emission))

\* Mutation: the quotient is taken whatever the sum.
hotkey_block_emission_Unguarded(emission, total) == Ratio(emission, total)

\* 218: emission[idx].tao / emission_sum if emission_sum != 0 else 0
hotkey_block_emission(emission, total) ==
    IF total # 0 THEN Ratio(emission, total) ELSE Ratio(0, 1)

\* 215-229: the rows of the subnet table: uid, emission share (printed as
\* Balance.from_tao(share) in the subnet's unit), hotkey.
SubnetRows(state) ==
    [i \in 1..Len(state.hotkeys) |->
        [uid |-> i - 1,
         emission |-> hotkey_block_emission(state.emission[i], emission_sum(state)),
         hotkey |-> state.hotkeys[i]]]

\* 72-82 and 139-148: what is printed instead of a table.
Rendered(state) ==
    IF ~state.exists THEN "does not exist"
    ELSE IF Len(state.hotkeys) = 0 THEN "empty"
    ELSE "table"

\* 113-117: sorted(enumerate(hotkeys), key=global_stake[idx], reverse=True),
\* as the indices in their new order.  The sort is stable, also when
\* reversed: of two hotkeys with the same stake the earlier one stays first.
Before(state, j, i) ==
    \/ state.global_stake[j] > state.global_stake[i]
    \/ state.global_stake[j] = state.global_stake[i] /\ j < i
sorted_hotkeys(state) ==
    [pos \in 1..Len(state.hotkeys) |->
        CHOOSE i \in 1..Len(state.hotkeys) :
            Cardinality({j \in 1..Len(state.hotkeys) : Before(state, j, i)}) = pos - 1]

\* 118-130: the rows of the root table, in the sorted order: position,
\* global stake, hotkey (the local stake and the emission summed over the
\* subnets are further columns, read from the chain as they are).
RootRows(state) ==
    [pos \in 1..Len(state.hotkeys) |->
        LET i == sorted_hotkeys(state)[pos]
        IN  [position |-> pos,
             global_stake |-> state.global_stake[i],
             hotkey |-> state.hotkeys[i]]]

\* 70-134: the root table has one row per root hotkey.
show_root(state) ==
    << Ev("show_root", "-", 0, Len(state.hotkeys), Rendered(state)) >>

\* 136-248
show_subnet(netuid, state) ==
    << Ev("show_subnet", "-", netuid, Len(state.hotkeys), Rendered(state)) >>

\* 65-68
ShowTable(netuid, state) ==
    IF IsRoot(netuid) THEN show_root(state) ELSE show_subnet(netuid, state)

\* 50-68: ShowSubnet.run
ShowSubnetRun ==
    /\ pc = "idle"
    /\ pc' = "done"
    /\ call' = [fn |-> "ShowSubnet.run"]
    /\ UNCHANGED <<chain, locals, decoder, config, subnet_state>>
    /\ \E typed \in PromptInputs :
        LET source == NetuidSource(config)
            answer == PromptAsk(typed, "0")
            asked == << Ev("Prompt.ask", "-", 0, 0, answer) >>
            netuid == IF source = "config" THEN config.netuid ELSE ParseInt(answer)
            shown == IF source = "config" THEN << >> ELSE asked
        IN  IF source = "exit"
            THEN /\ log' = << Ev("logging.error", "-", 0, 0, "netuid is needed to proceed"),
                              Ev("sys.exit", "-", 1, 0, "-") >>
                 /\ ret' = "SystemExit"
                 /\ rows' = << >>
            ELSE IF netuid = NoNetuid
            THEN /\ log' = asked
                 /\ ret' = "ValueError"
                 /\ rows' = << >>
            ELSE /\ log' = shown \o ShowTable(netuid, subnet_state)
                 /\ ret' = "None"
                 /\ rows' = IF Rendered(subnet_state) # "table" THEN << >>
                            ELSE IF IsRoot(netuid) THEN RootRows(subnet_state)
                            ELSE SubnetRows(subnet_state)

----------------------------------------------------------------------------

NoCallYet ==
    /\ call = NoCall
    /\ log = << >>
    /\ ret = "none"
    /\ pc = "idle"
    /\ idx = 0
    /\ amounts = << >>
    /\ old_stakes = << >>
    /\ own_hotkeys = << >>
    /\ successful_unstakes = 0

\* Nothing was decoded and no command was run.
NoNeuron == [is_null |-> TRUE, decoded |-> FALSE]
NoConfig == [netuid_is_set |-> FALSE, netuid |-> NoNetuid, no_prompt |-> FALSE]
NoSubnetState ==
    [exists |-> FALSE, hotkeys |-> << >>, emission |-> << >>, global_stake |-> << >>]
NothingDecoded ==
    neuron_info_decoded = NoNeuron /\ neuron = NoNeuron /\ neuron_lite = NoNeuron
NothingShown == config = NoConfig /\ subnet_state = NoSubnetState /\ rows = << >>

Init ==
    /\ \E cs \in ChainStates : stake = cs[1] /\ balance = cs[2]
    /\ NoCallYet
    /\ NothingDecoded
    /\ NothingShown

InitSingle ==
    /\ \E cs \in ChainStatesSingle : stake = cs[1] /\ balance = cs[2]
    /\ NoCallYet
    /\ NothingDecoded
    /\ NothingShown

Next ==
    \/ UnstakeExtrinsicCall
    \/ TransferExtrinsicCall
    \/ UnstakeMultipleCall
    \/ unstake_multiple_target

Spec == Init /\ [][Next]_vars

\* The single-target orchestrators alone.
NextSingle ==
    \/ UnstakeExtrinsicCall
    \/ TransferExtrinsicCall

SpecSingle == InitSingle /\ [][NextSingle]_vars

\* The batch orchestrator alone.
NextMultiple ==
    \/ UnstakeMultipleCall
    \/ unstake_multiple_target

SpecMultiple == Init /\ [][NextMultiple]_vars

\* The NeuronInfo decoder, run on every decoded chain object of the bounds.
InitNeuron ==
    /\ stake = [h \in Hotkeys |-> 0] /\ balance = 0
    /\ NoCallYet
    /\ neuron_info_decoded \in DecodedInputs
    /\ neuron = NoNeuron
    /\ neuron_lite = NoNeuron
    /\ NothingShown

NextNeuron ==
    \/ FromVecU8
    \/ FixDecodedValues
    \/ GetNullNeuron

SpecNeuron == InitNeuron /\ [][NextNeuron]_vars

\* from_weights_bonds_and_neuron_lite, run on every lite neuron of the bounds.
InitLite ==
    /\ stake = [h \in Hotkeys |-> 0] /\ balance = 0
    /\ NoCallYet
    /\ neuron_info_decoded = NoNeuron
    /\ neuron = NoNeuron
    /\ neuron_lite \in LiteNeurons
    /\ NothingShown

NextLite == FromWeightsBondsAndNeuronLite

SpecLite == InitLite /\ [][NextLite]_vars

\* The show command, run on every configuration and subnet state.
InitShow ==
    /\ stake = [h \in Hotkeys |-> 0] /\ balance = 0
    /\ NoCallYet
    /\ NothingDecoded
    /\ config \in Configs
    /\ subnet_state \in {st \in SubnetStates :
            /\ Len(st.emission) = Len(st.hotkeys)
            /\ Len(st.global_stake) = Len(st.hotkeys)}
    /\ rows = << >>

NextShow == ShowSubnetRun

SpecShow == InitShow /\ [][NextShow]_vars

----------------------------------------------------------------------------
(* Reading the log *)

Positions(op) == {p \in 1..Len(log) : Op(log[p]) = op}
Has(op) == Positions(op) # {}

\* The first call of an operation made for target i.
FirstAt(op, i) ==
    CHOOSE p \in Positions(op) :
        /\ Ix(log[p]) = i
        /\ \A q \in Positions(op) : Ix(log[q]) = i => p <= q
HasAt(op, i) == \E p \in Positions(op) : Ix(log[p]) = i

Submits == Positions("_do_unstake")
Transfers == Positions("do_transfer")

\* What the call was asked to unstake from target i, and what it read.
ArgFor(i) == IF call.amounts_given THEN call.amounts[i + 1] ELSE NoneAmount
StakeReadFor(i) == Amt(log[FirstAt("get_stake_for_coldkey_and_hotkey", i)])
HotkeyFor(i) == Hk(log[FirstAt("get_stake_for_coldkey_and_hotkey", i)])
MinReadFor(i) == Amt(log[FirstAt("get_minimum_required_stake", i)])
RequestedRao(i) ==
    IF ArgFor(i).t = "None" THEN StakeReadFor(i)
    ELSE IF ArgFor(i).t = "float" THEN ArgFor(i).v * RaoPerTao
    ELSE ArgFor(i).v
DeclinedAt(i) ==
    \E p \in Positions("Confirm.ask") : Ix(log[p]) = i /\ Out(log[p]) = "no"
IsNomination(i) == HotkeyOwner[HotkeyFor(i)] # WalletColdkey

UnstakeDone == call.fn = "unstake_extrinsic" /\ pc = "done"
TransferDone == call.fn = "transfer_extrinsic" /\ pc = "done"
CallNoWait == ~call.wait_for_inclusion /\ ~call.wait_for_finalization

----------------------------------------------------------------------------
(* Claims *)

\* C1: unstake_extrinsic asked for more than the stake it read returns False
\* and never calls _do_unstake; a request equal to the stake passes the
\* check (the call goes on to the prompt or to the submission).
C1_NotEnoughStakeRejected ==
    UnstakeDone =>
        /\ RequestedRao(0) > StakeReadFor(0) => ret = "False" /\ Submits = {}
        /\ RequestedRao(0) = StakeReadFor(0) => Has("Confirm.ask") \/ Submits # {}

C1_Witness ==
    /\ UnstakeDone
    /\ RequestedRao(0) > StakeReadFor(0)
    /\ StakeReadFor(0) > 0
    /\ ret = "False"

\* C2: in both unstake orchestrators, a submission for a nomination whose
\* remainder r = stake - requested has 0 < r < minimum required stake
\* carries the entire stake, not the requested amount.
C2_NominationRemainderUpgraded ==
    call.fn \in {"unstake_extrinsic", "unstake_multiple_extrinsic"} =>
        \A p \in Submits :
            LET i == Ix(log[p])
                r == StakeReadFor(i) - RequestedRao(i)
            IN  (IsNomination(i) /\ 0 < r /\ r < MinReadFor(i))
                    => Amt(log[p]) = StakeReadFor(i)

C2_Witness ==
    /\ call.fn = "unstake_multiple_extrinsic"
    /\ \E p \in Submits :
        LET i == Ix(log[p])
            r == StakeReadFor(i) - RequestedRao(i)
        IN  /\ IsNomination(i) /\ 0 < r /\ r < MinReadFor(i)
            /\ Amt(log[p]) = StakeReadFor(i)
            /\ Amt(log[p]) # RequestedRao(i)

\* C3: unstake_extrinsic called with amount = None on a pair with stake S
\* submits exactly S, once, for own hotkeys and nominations alike (unless
\* the prompt is declined, when nothing is submitted).
C3_UnstakeAllSubmitsStake ==
    (UnstakeDone /\ ~call.amounts_given) =>
        /\ \A p \in Submits : Amt(log[p]) = StakeReadFor(0)
        /\ Cardinality(Submits) = IF DeclinedAt(0) THEN 0 ELSE 1

C3_Witness ==
    /\ UnstakeDone /\ ~call.amounts_given
    /\ IsNomination(0)
    /\ StakeReadFor(0) = MaxAmount
    /\ \E p \in Submits : Amt(log[p]) = MaxAmount

\* C4: transfer_extrinsic submits only if balance >= amount + fee + D, with
\* D the existential deposit under keep_alive and 0 otherwise; short of that
\* it returns False without submitting.  With keep_alive = false, one rao
\* short returns False, and the exact balance is submitted and returns True
\* when the chain accepts it.
TransferAmount == ToTransferBalance(call.amounts[1])
TransferNeed ==
    TransferAmount + Amt(log[FirstAt("get_transfer_fee", 0)])
        + (IF call.keep_alive THEN Amt(log[FirstAt("get_existential_deposit", 0)]) ELSE 0)
BalanceRead == Amt(log[FirstAt("get_balance", 0)])

C4_TransferNeedsBalance ==
    (TransferDone /\ call.dest_valid) =>
        /\ Transfers # {} => BalanceRead >= TransferNeed
        /\ BalanceRead < TransferNeed => ret = "False" /\ Transfers = {}
        /\ (BalanceRead >= TransferNeed /\ ~DeclinedAt(0)) =>
              /\ Cardinality(Transfers) = 1
              /\ \A p \in Transfers :
                    /\ Amt(log[p]) = TransferAmount
                    /\ Out(log[p]) = "True" => ret = "True"

C4_Witness ==
    /\ TransferDone /\ call.dest_valid /\ ~call.keep_alive
    /\ TransferAmount > 0
    /\ Amt(log[FirstAt("get_transfer_fee", 0)]) > 0
    /\ BalanceRead = TransferNeed
    /\ ret = "True"

\* C5: when the user answers no to the confirmation, unstake_extrinsic and
\* transfer_extrinsic return False and submit nothing.
C5_DeclinedPromptSubmitsNothing ==
    ((UnstakeDone \/ TransferDone) /\ call.prompt /\ DeclinedAt(0)) =>
        /\ ret = "False"
        /\ Submits = {}
        /\ Transfers = {}

C5_Witness ==
    /\ UnstakeDone /\ call.prompt /\ DeclinedAt(0)
    /\ StakeReadFor(0) > 0
    /\ ret = "False"

MultipleDone == call.fn = "unstake_multiple_extrinsic" /\ pc = "done"
InMultiple == call.fn = "unstake_multiple_extrinsic"
Succeeded == {p \in Submits : Out(log[p]) = "True"}
NTargets == Len(call.hotkey_ss58s)
\* The call got past its argument checks (it unlocked the coldkey).
Started == log # << >>

\* C6 (as stated): unstake_multiple_extrinsic returns True exactly when some
\* target was unstaked successfully.
C6_Original ==
    (MultipleDone /\ ret \in {"True", "False"}) =>
        (ret = "True" <=> Succeeded # {})

\* C6 (amended): unstake_multiple_extrinsic returns True exactly when some
\* target was unstaked successfully, or the hotkey list is empty, or the
\* amounts are given and are all zero; otherwise, when the arguments are
\* accepted, it returns False.
NothingToDo ==
    \/ NTargets = 0
    \/ call.amounts_given /\ \A i \in 1..Len(call.amounts) : call.amounts[i].v = 0

C6_TrueIffSuccessOrNothingToDo ==
    (MultipleDone /\ ret # "ValueError") =>
        /\ ret \in {"True", "False"}
        /\ ret = "True" <=> (Succeeded # {} \/ NothingToDo)

C6_Witness ==
    /\ MultipleDone /\ NTargets = 2 /\ ret = "True"
    /\ Cardinality(Succeeded) = 1
    /\ Cardinality(Submits) = 2

\* C7: unstake_multiple_extrinsic submits for each target at most once and
\* in input order; a target that fails is skipped and every other target
\* that passes its checks is still submitted; a target's stake is read again
\* after the submissions began only once its own submission succeeded; and
\* a batch with a success returns True.
C7_FailuresSkippedInOrder ==
    InMultiple =>
        /\ \A p, q \in Submits : p < q => Ix(log[p]) < Ix(log[q])
        /\ \A p \in Submits : Hk(log[p]) = call.hotkey_ss58s[Ix(log[p]) + 1]
        /\ (MultipleDone /\ Started) =>
              \A i \in 0..(NTargets - 1) :
                  (RequestedRao(i) <= StakeReadFor(i) /\ ~DeclinedAt(i))
                      => \E p \in Submits : Ix(log[p]) = i
        /\ \A p \in Positions("get_stake_for_coldkey_and_hotkey") \cup
                    Positions("get_current_block") :
              (\E q \in Submits : q < p) =>
                  \E q \in Succeeded : q < p /\ Ix(log[q]) = Ix(log[p])
        /\ (MultipleDone /\ Succeeded # {}) => ret = "True"

C7_Witness ==
    /\ MultipleDone /\ Started /\ NTargets = 2 /\ ret = "True"
    /\ RequestedRao(0) > StakeReadFor(0)
    /\ \A p \in Submits : Ix(log[p]) = 1
    /\ \E p \in Positions("get_current_block") : Ix(log[p]) = 1
    /\ ~ \E p \in Positions("get_current_block") : Ix(log[p]) = 0

\* C8 (as stated): with a tx_rate_limit of L > 0 blocks, any two consecutive
\* submissions of a batch are separated by a pause, and no pause follows the
\* last submission of the batch.
C8_Original ==
    (InMultiple /\ \A p \in Positions("tx_rate_limit") : Amt(log[p]) > 0) =>
        /\ \A p, q \in Submits :
              (p < q /\ ~ \E m \in Submits : p < m /\ m < q)
                  => \E s \in Positions("sleep") : p < s /\ s < q
        /\ MultipleDone =>
              \A s \in Positions("sleep") : \E q \in Submits : s < q

\* C8 (amended): after each successful submission for a target that is not
\* the last entry of the hotkey list, the orchestrator reads tx_rate_limit
\* and, when it is L > 0 blocks, pauses L * 12 seconds before it goes on; it
\* pauses nowhere else (not after a failed submission, not after the
\* submission for the last entry).
C8_PauseAfterSuccessNotLast ==
    InMultiple =>
        /\ \A p \in Succeeded :
              Ix(log[p]) < NTargets - 1 =>
                  /\ p + 1 <= Len(log)
                  /\ Op(log[p + 1]) = "tx_rate_limit"
                  /\ Amt(log[p + 1]) > 0 =>
                        /\ p + 2 <= Len(log)
                        /\ Op(log[p + 2]) = "sleep"
                        /\ Amt(log[p + 2]) = Amt(log[p + 1]) * 12
        /\ \A s \in Positions("sleep") :
              /\ s > 2
              /\ Op(log[s - 1]) = "tx_rate_limit"
              /\ Amt(log[s - 1]) > 0
              /\ Amt(log[s]) = Amt(log[s - 1]) * 12
              /\ (s - 2) \in Succeeded
              /\ Ix(log[s - 2]) < NTargets - 1
        /\ \A t \in Positions("tx_rate_limit") :
              /\ (t - 1) \in Succeeded
              /\ Ix(log[t - 1]) < NTargets - 1

C8_Witness ==
    /\ MultipleDone
    /\ \E p, q \in Succeeded :
          /\ p < q
          /\ Op(log[p + 2]) = "sleep"
          /\ Amt(log[p + 2]) = 12
          /\ p + 2 < q

\* C9: a successful unstake_extrinsic that waits for neither inclusion nor
\* finalization returns True with the submission as its last chain call;
\* with a wait flag set it reads the balance and the pair's stake again
\* before it returns True.
C9_UnstakeReportOnlyIfWaited ==
    UnstakeDone =>
        \A p \in Succeeded :
            /\ ret = "True"
            /\ CallNoWait => Len(log) = p
            /\ ~CallNoWait =>
                  /\ Len(log) = p + 2
                  /\ Op(log[p + 1]) = "get_balance"
                  /\ Op(log[p + 2]) = "get_stake_for_coldkey_and_hotkey"
                  /\ Hk(log[p + 2]) = Hk(log[p])

C9_Witness ==
    /\ UnstakeDone /\ CallNoWait /\ ret = "True"
    /\ Len(log) \in Succeeded
    /\ Amt(log[Len(log)]) > 0

\* C10 (as stated): a successful transfer_extrinsic that waits for neither
\* inclusion nor finalization returns True with do_transfer as its last
\* chain call.
TransferSucceeded == {p \in Transfers : Out(log[p]) = "True"}

\* The chain calls made after position p (wallet.coldkey is the wallet's).
ChainCallsAfter(p) == {q \in (p + 1)..Len(log) : Op(log[q]) # "wallet.coldkey"}

C10_Original ==
    (TransferDone /\ CallNoWait) =>
        \A p \in TransferSucceeded : ret = "True" /\ ChainCallsAfter(p) = {}

\* C10 (amended): a successful transfer_extrinsic that waits for neither
\* inclusion nor finalization returns True after one more chain query, the
\* re-query of the coldkey balance.
C10_TransferAlwaysReports ==
    (TransferDone /\ CallNoWait) =>
        \A p \in TransferSucceeded :
            /\ ret = "True"
            /\ ChainCallsAfter(p) = {Len(log)}
            /\ Len(log) = p + 2
            /\ Op(log[p + 2]) = "get_balance"

C10_Witness ==
    /\ TransferDone /\ CallNoWait /\ ret = "True"
    /\ TransferAmount > 0
    /\ (Len(log) - 2) \in TransferSucceeded
    /\ Op(log[Len(log)]) = "get_balance"

\* C11: a NotRegisteredError or StakeError raised by the chain submission
\* never leaves the orchestrator: unstake_extrinsic ends there and returns
\* False; unstake_multiple_extrinsic goes on with the targets after it and
\* returns True or False.
Raising == {p \in Submits : Out(log[p]) \in {"NotRegisteredError", "StakeError"}}

C11_ExceptionsBecomeFalse ==
    /\ ret \notin {"NotRegisteredError", "StakeError"}
    /\ (UnstakeDone /\ Raising # {}) => ret = "False" /\ Len(log) \in Raising
    /\ MultipleDone =>
          /\ Raising # {} => ret \in {"True", "False"}
          /\ \A p \in Raising : \A i \in (Ix(log[p]) + 1)..(NTargets - 1) :
                (RequestedRao(i) <= StakeReadFor(i) /\ ~DeclinedAt(i))
                    => \E q \in Submits : q > p /\ Ix(log[q]) = i

C11_Witness ==
    /\ MultipleDone /\ NTargets = 2 /\ ret = "True"
    /\ \E p \in Raising, q \in Succeeded :
          /\ Out(log[p]) = "NotRegisteredError"
          /\ Ix(log[p]) = 0 /\ Ix(log[q]) = 1

\* C12: in unstake_extrinsic, unstake_multiple_extrinsic and
\* transfer_extrinsic every chain submission (_do_unstake, do_transfer) comes
\* after a request, made in the same call, to unlock the wallet coldkey; that
\* request is the first thing a call that submits does.
Unlocks == Positions("wallet.coldkey") \cup Positions("unlock_coldkey")

C12_UnlockBeforeSubmission ==
    /\ \A p \in Submits \cup Transfers : \E u \in Unlocks : u < p
    /\ (Submits \cup Transfers # {}) => 1 \in Unlocks

C12_Witness ==
    /\ TransferDone /\ ret = "True"
    /\ 1 \in Unlocks
    /\ \E p \in TransferSucceeded : p > 1 /\ Amt(log[p]) > 0

\* C13: transfer_extrinsic called with an invalid destination returns False
\* at once: no coldkey unlock, no chain query, no prompt, no transfer.
C13_InvalidDestinationDoesNothing ==
    (TransferDone /\ ~call.dest_valid) =>
        /\ ret = "False"
        /\ log = << >>
        /\ Unlocks = {} /\ Transfers = {} /\ Positions("get_balance") = {}

C13_Witness ==
    /\ TransferDone /\ ~call.dest_valid
    /\ call.amounts[1].v > 0 /\ balance > RaoPerTao
    /\ ret = "False" /\ Len(log) = 0

DecodeDone == pc = "done" /\ call.fn \in {"NeuronInfo.from_vec_u8", "NeuronInfo.fix_decoded_values"}
NullMade == pc = "done" /\ call.fn = "NeuronInfo.get_null_neuron"

\* C14: a neuron decoded from an empty stake list, by from_vec_u8 or by
\* fix_decoded_values, has stake == Balance.from_rao(0), total_stake ==
\* Balance.from_rao(0) and an empty stake_dict.
C14_EmptyStakeListIsZero ==
    (DecodeDone /\ call.arg.stake = << >>) =>
        /\ BalanceEq(neuron.stake, Balance(0))
        /\ BalanceEq(neuron.total_stake, Balance(0))
        /\ DOMAIN neuron.stake_dict = {}

C14_Witness ==
    /\ DecodeDone /\ call.fn = "NeuronInfo.from_vec_u8"
    /\ call.arg.stake = << >> /\ call.arg.uid = 1
    /\ neuron.stake = Balance(0)
    /\ neuron.stake_dict = << >>

\* The sum of the values of a stake_dict, in rao.
RECURSIVE DictTotal(_)
DictTotal(d) ==
    IF DOMAIN d = {} THEN 0
    ELSE LET k == CHOOSE k \in DOMAIN d : TRUE
         IN  d[k].v + DictTotal([a \in DOMAIN d \ {k} |-> d[a]])

\* C15: every NeuronInfo made by from_vec_u8, fix_decoded_values or
\* get_null_neuron has total_stake == stake == the sum of the values of its
\* stake_dict, also when the stake list names a coldkey more than once.
C15_TotalStakeIsSumOfDict ==
    (DecodeDone \/ NullMade) =>
        /\ BalanceEq(neuron.total_stake, neuron.stake)
        /\ BalanceEq(neuron.stake, Balance(DictTotal(neuron.stake_dict)))

C15_Witness ==
    /\ DecodeDone /\ call.fn = "NeuronInfo.fix_decoded_values"
    /\ call.arg.stake = << <<"id1", 1>>, <<"id1", 2>> >>
    /\ neuron.stake_dict = [a \in {"5_id1"} |-> Balance(2)]
    /\ neuron.total_stake = Balance(2)

\* C16: the weights and the bonds of a decoded neuron are the lists of the
\* chain object: same length, same order, each entry the pair
\* [peer_uid, value] with both integers as they were.
SamePairs(out, in) ==
    /\ Len(out) = Len(in)
    /\ \A i \in 1..Len(in) :
          /\ Len(out[i]) = 2
          /\ out[i][1] = in[i][1]
          /\ out[i][2] = in[i][2]

C16_AdjacencyPreserved ==
    DecodeDone =>
        /\ SamePairs(neuron.weights, call.arg.weights)
        /\ SamePairs(neuron.bonds, call.arg.bonds)

C16_Witness ==
    /\ DecodeDone /\ call.fn = "NeuronInfo.from_vec_u8"
    /\ call.arg.weights = << <<1, 100>>, <<2, 200>> >>
    /\ neuron.weights = << <<1, 100>>, <<2, 200>> >>
    /\ Len(neuron.bonds) = 2

\* C17: get_null_neuron returns is_null = true, every numeric field zero,
\* stake and total_stake zero, stake_dict, weights and bonds empty,
\* axon_info and prometheus_info None, and hotkey and coldkey the string of
\* 48 zeros; every record from_vec_u8 returns has is_null = false.
C17_NullNeuronShape ==
    /\ NullMade =>
          /\ neuron.is_null
          /\ neuron.uid = 0 /\ neuron.netuid = 0 /\ neuron.active = 0
          /\ neuron.last_update = 0 /\ neuron.pruning_score = 0
          /\ ~neuron.validator_permit
          /\ \A f \in {"rank", "emission", "incentive", "consensus", "trust",
                        "validator_trust", "dividends"} : neuron[f][1] = 0
          /\ neuron.stake = Balance(0) /\ neuron.total_stake = Balance(0)
          /\ DOMAIN neuron.stake_dict = {}
          /\ neuron.weights = << >> /\ neuron.bonds = << >>
          /\ neuron.axon_info = NoInfo /\ neuron.prometheus_info = NoInfo
          /\ neuron.hotkey = "000000000000000000000000000000000000000000000000"
          /\ neuron.coldkey = "000000000000000000000000000000000000000000000000"
    /\ (pc = "done" /\ call.fn = "NeuronInfo.from_vec_u8") => ~neuron.is_null

C17_Witness ==
    /\ pc = "done" /\ call.fn = "NeuronInfo.from_vec_u8"
    /\ call.arg.uid = 0 /\ call.arg.stake = << >> /\ call.arg.weights = << >>
    /\ neuron.uid = 0 /\ neuron.rank[1] = 0
    /\ neuron.hotkey # "000000000000000000000000000000000000000000000000"
    /\ ~neuron.is_null

ShowDone == pc = "done" /\ call.fn = "ShowSubnet.run"
Exited == Has("sys.exit")
Tables == Positions("show_root") \cup Positions("show_subnet")

\* C18: ShowSubnet.run exits with status 1, after logging an error and
\* showing nothing, exactly when no netuid was given and no_prompt is set;
\* with no netuid and prompting allowed it asks for one (an empty answer is
\* 0); and with the netuid known it shows the root table if the netuid is 0
\* and that subnet's table otherwise.
C18_ExitOnlyWithoutNetuidAndPrompt ==
    ShowDone =>
        /\ Exited <=> (~config.netuid_is_set /\ config.no_prompt)
        /\ Exited =>
              /\ ret = "SystemExit"
              /\ Op(log[1]) = "logging.error"
              /\ Op(log[2]) = "sys.exit" /\ Amt(log[2]) = 1
              /\ Len(log) = 2 /\ Tables = {} /\ rows = << >>
        /\ Has("Prompt.ask") <=> (~config.netuid_is_set /\ ~config.no_prompt)
        /\ ret = "None" =>
              LET netuid == IF config.netuid_is_set THEN config.netuid
                            ELSE ParseInt(Out(log[1]))
              IN  /\ Cardinality(Tables) = 1
                  /\ Has("show_root") <=> netuid = 0
                  /\ \A p \in Positions("show_subnet") :
                        Amt(log[p]) = netuid /\ netuid # 0

C18_Witness ==
    /\ ShowDone /\ ~config.netuid_is_set /\ config.no_prompt
    /\ subnet_state.exists /\ Len(subnet_state.hotkeys) = MaxUids
    /\ Exited /\ ret = "SystemExit" /\ rows = << >>

\* C19: every row of the subnet table shows the share emission / sum of all
\* emissions of its neuron; when the emissions sum to zero every share is
\* zero, and no share has a zero divisor.
RECURSIVE EmissionTotal(_)
EmissionTotal(es) == IF es = << >> THEN 0 ELSE Head(es) + EmissionTotal(Tail(es))

C19_EmissionShare ==
    ShowDone =>
        /\ Positions("show_subnet") # {} /\ subnet_state.exists
              => Len(rows) = Len(subnet_state.hotkeys)
        /\ Positions("show_subnet") # {} => \A i \in 1..Len(rows) :
              LET share == rows[i].emission
                  total == EmissionTotal(subnet_state.emission)
              IN  /\ share[2] # 0
                  /\ total = 0 => share[1] = 0
                  /\ total # 0 => share[1] * total = subnet_state.emission[i] * share[2]

C19_Witness ==
    /\ ShowDone /\ Has("show_subnet") /\ Len(rows) = 2
    /\ subnet_state.emission = <<1, 2>>
    /\ rows[1].emission = <<1, 3>> /\ rows[2].emission = <<2, 3>>

\* C21: in both unstake orchestrators a submission carries the requested
\* amount unchanged when the hotkey is the wallet's own (whatever the
\* remainder) or the remainder stake - requested is 0 or at least the
\* minimum required stake; and the minimum required stake is queried for
\* nominations only.
C21_RequestedAmountKept ==
    call.fn \in {"unstake_extrinsic", "unstake_multiple_extrinsic"} =>
        /\ \A p \in Submits :
              LET i == Ix(log[p])
                  r == StakeReadFor(i) - RequestedRao(i)
              IN  (~IsNomination(i) \/ r = 0 \/ r >= MinReadFor(i))
                      => Amt(log[p]) = RequestedRao(i)
        /\ \A q \in Positions("get_minimum_required_stake") : IsNomination(Ix(log[q]))

C21_Witness ==
    /\ UnstakeDone /\ call.amounts_given
    /\ ~IsNomination(0)
    /\ StakeReadFor(0) - RequestedRao(0) = 1
    /\ ~Has("get_minimum_required_stake")
    /\ \E p \in Submits : Amt(log[p]) = RequestedRao(0) /\ Amt(log[p]) = 1

\* The submissions a step adds to the log.
NewSubmits == {p \in (Len(log) + 1)..Len(log') : Op(log'[p]) = "_do_unstake"}

\* What a call submitted in all for a hotkey, and the stake it first read.
RECURSIVE SubmittedUpTo(_, _)
SubmittedUpTo(hk, n) ==
    IF n = 0 THEN 0
    ELSE SubmittedUpTo(hk, n - 1)
            + (IF Op(log[n]) = "_do_unstake" /\ Hk(log[n]) = hk THEN Amt(log[n]) ELSE 0)
StakeAtStart(hk) ==
    Amt(log[CHOOSE p \in Positions("get_stake_for_coldkey_and_hotkey") :
                /\ Hk(log[p]) = hk
                /\ \A q \in Positions("get_stake_for_coldkey_and_hotkey") :
                      Hk(log[q]) = hk => p <= q])

\* C22: every amount unstake_extrinsic or unstake_multiple_extrinsic submits
\* is at most the stake the pair holds on chain when it is submitted; and
\* the amounts a call submits for one hotkey, also one listed more than
\* once, add up to at most the stake the hotkey held when the call began.
C22_SubmittedWithinStake ==
    /\ [][\A p \in NewSubmits : Amt(log'[p]) <= stake[Hk(log'[p])]]_vars
    /\ [](\A p \in Submits :
            SubmittedUpTo(Hk(log[p]), Len(log)) <= StakeAtStart(Hk(log[p])))

\* The amounts handed to the call add up to zero tao, and their number
\* differs from the number of hotkeys.
ZeroSumGiven ==
    call.amounts_given /\ \A i \in 1..Len(call.amounts) : call.amounts[i].v = 0
LengthsDiffer == call.amounts_given /\ Len(call.amounts) # NTargets
Untouched == log = << >>

\* C23 (as stated): unstake_multiple_extrinsic returns True without unlock,
\* query or submission when the hotkey list is empty or the given amounts
\* sum to zero tao, and raises ValueError before any of them when the given
\* amounts differ in length from the hotkey list.
C23_Original ==
    InMultiple =>
        /\ (NTargets = 0 \/ ZeroSumGiven) => (ret = "True" /\ Untouched)
        /\ LengthsDiffer => (ret = "ValueError" /\ Untouched)

\* C23 (amended): unstake_multiple_extrinsic returns True without unlock,
\* query or submission when the hotkey list is empty, or when amounts are
\* given with one amount per hotkey and sum to zero tao; it raises
\* ValueError before any of them when the hotkey list is not empty and the
\* given amounts differ from it in length.
C23_EarlyReturns ==
    InMultiple =>
        /\ (NTargets = 0 \/ (ZeroSumGiven /\ ~LengthsDiffer))
                => (ret = "True" /\ Untouched)
        /\ (NTargets # 0 /\ LengthsDiffer) => (ret = "ValueError" /\ Untouched)

C23_Witness ==
    /\ MultipleDone /\ Untouched
    /\ NTargets = 2 /\ ZeroSumGiven /\ ~LengthsDiffer
    /\ call.hotkey_ss58s[1] # call.hotkey_ss58s[2]
    /\ ret = "True"

LiteDone == pc = "done" /\ call.fn = "NeuronInfo.from_weights_bonds_and_neuron_lite"

\* C24: from_weights_bonds_and_neuron_lite returns a NeuronInfo whose weights
\* and bonds are the entries of the two dictionaries for the lite neuron's
\* uid (empty lists when the uid is absent) and whose other fields are the
\* lite neuron's, and the lite neuron it was given is afterwards as it was
\* before the call.
C24_FromLiteKeepsInput ==
    LiteDone =>
        /\ neuron.weights = DictGet(call.weights_as_dict, call.arg.uid)
        /\ neuron.bonds = DictGet(call.bonds_as_dict, call.arg.uid)
        /\ DOMAIN neuron = DOMAIN call.arg \cup {"weights", "bonds"}
        /\ \A f \in DOMAIN call.arg : neuron[f] = call.arg[f]
        /\ neuron_lite = call.arg

\* The submissions the chain reported as failed.
FailedSubmits == {p \in Submits : Out(log[p]) = "False"}
FailedTransfers == {p \in Transfers : Out(log[p]) = "False"}

\* C25: when the submission is made and reports failure, unstake_extrinsic
\* and transfer_extrinsic return False and the submission is the last thing
\* they ask of the chain (no balance or stake is read again); either returns
\* True only if its submission reported success.
C25_FailedSubmissionIsFalse ==
    /\ UnstakeDone =>
          /\ \A p \in FailedSubmits : ret = "False" /\ Len(log) = p
          /\ ret = "True" => Succeeded # {}
    /\ TransferDone =>
          /\ \A p \in FailedTransfers : ret = "False" /\ Len(log) = p
          /\ ret = "True" => TransferSucceeded # {}

C25_Witness ==
    /\ UnstakeDone /\ call.wait_for_finalization /\ call.wait_for_inclusion
    /\ FailedSubmits # {} /\ Len(log) \in FailedSubmits
    /\ \E p \in FailedSubmits : Amt(log[p]) > 0
    /\ ret = "False"

====
